---- MODULE Spec2Model ----
(***************************************************************************)
(* Model of WebHelper (src/src/WebHelper.js): a registry of web sources    *)
(* and the sequential-fallback load(assetType, assetId).                   *)
(*                                                                         *)
(* A load call is a promise plus the closure state of tryNextSource        *)
(* (errors, sources, asset, sourceIndex).  Each handler of the program is  *)
(* one action: addSource, load (including the first, synchronous           *)
(* tryNextSource), the response callback and the error callback of got     *)
(* (each including the tryNextSource it re-enters).                        *)
(***************************************************************************)
EXTENDS Integers, Sequences, FiniteSets, TLC

\* ---------------------------------------------------------------- bounds
MaxSources == 3
MaxLoads == 2

\* ------------------------------------------------------- input universes
\* AssetType objects: a name and a runtimeFormat.
AssetTypes ==
    { [name |-> "ImageVector", runtimeFormat |-> "svg"],
      [name |-> "Sound", runtimeFormat |-> "wav"] }

\* The `types` arrays handed to addSource: none, one type, both types.
TypeLists ==
    { <<>>,
      << [name |-> "ImageVector", runtimeFormat |-> "svg"] >>,
      << [name |-> "ImageVector", runtimeFormat |-> "svg"],
         [name |-> "Sound", runtimeFormat |-> "wav"] >> }

AssetIds == {"id1"}

\* UrlFunction values handed to addSource.  "cdn" and "mirror" return a
\* string computed from the asset; "broken" throws when it is called.
UrlFunctions == {"cdn", "mirror", "broken"}

Throws(urlFunction) == urlFunction = "broken"

\* The string a (non-throwing) UrlFunction returns for an asset.
ApplyUrlFunction(urlFunction, asset) ==
    [by |-> urlFunction, type |-> asset.assetType.name, id |-> asset.assetId]

\* What got(url, options) can settle with, as the callbacks of load use it:
\* a response (numeric status, body) of any status, or an error.  The body of a response outside [200, 300) is never read by the
\* program, so one value stands for it.
Statuses == {200, 299, 300, 404, 500}
Bodies == {"bytes1", "bytes2"}
ErrorPage == "error page"
Responses ==
    { r \in [kind : {"response"}, status : Statuses, body : Bodies \cup {ErrorPage}] :
        (r.body = ErrorPage) <=> (r.status < 200 \/ r.status >= 300) }
TransportErrors == { [kind |-> "error", code |-> "ECONNREFUSED"] }

\* ------------------------------------------------------------ Asset.js
NoData == "<no data>"

NewAsset(assetType, assetId) ==
    [assetType |-> assetType, assetId |-> assetId,
     data |-> NoData, dataFormat |-> NoData, setDataCalls |-> 0]

SetData(asset, data, dataFormat) ==
    [asset EXCEPT !.data = data, !.dataFormat = dataFormat,
                  !.setDataCalls = @ + 1]

\* ------------------------------------------------------- promise values
Pending == [state |-> "pending"]
FulfilledWithAsset(asset) == [state |-> "fulfilled", value |-> "asset", asset |-> asset]
FulfilledWithNull == [state |-> "fulfilled", value |-> "null"]
RejectedWithErrors(errors) == [state |-> "rejected", value |-> "errors", errors |-> errors]
RejectedWithException(urlFunction) ==
    [state |-> "rejected", value |-> "exception", thrownBy |-> urlFunction]

\* fulfill(v) / reject(v) of the promise built by load: the first call
\* settles it, any later call is ignored; `settleCalls` counts the calls.
Settle(call, outcome) ==
    [call EXCEPT !.promise = IF @ = Pending THEN outcome ELSE @,
                 !.settleCalls = @ + 1]

\* ---------------------------------------------------------------- state
VARIABLES
    sources,     \* this.sources: sequence of [types, urlFunction]
    calls,       \* call id -> the state of that load call
    registered   \* history: the arguments of every addSource call, in order

vars == <<sources, calls, registered>>

Calls == 1..MaxLoads

\* A load that has not been called yet.
NotCalled ==
    [called |-> FALSE,
     assetType |-> [name |-> "", runtimeFormat |-> ""],
     assetId |-> "",
     errors |-> <<>>,
     sources |-> <<>>,
     asset |-> NewAsset([name |-> "", runtimeFormat |-> ""], ""),
     sourceIndex |-> 0,
     inFlight |-> <<>>,      \* urls of the got() requests not yet settled
     promise |-> Pending,
     settleCalls |-> 0,
     \* history of the call (not read by the program)
     invoked |-> <<>>,       \* [index, arg] of every urlFunction invocation
     fetched |-> <<>>,       \* url of every got() issued
     answers |-> <<>>,       \* [index, url, result] of every settled got()
     cursors |-> <<>> ]      \* sourceIndex after each tryNextSource

Init ==
    /\ sources = <<>>
    /\ calls = [c \in Calls |-> NotCalled]
    /\ registered = <<>>

\* ------------------------------------------------------------ addSource
Names(types) == [i \in 1..Len(types) |-> types[i].name]

\* Mutant: unshift instead of push.
AddSourceTo_Unshift(srcs, types, urlFunction) ==
    <<[types |-> Names(types), urlFunction |-> urlFunction]>> \o srcs

AddSourceTo(srcs, types, urlFunction) ==
    Append(srcs, [types |-> Names(types), urlFunction |-> urlFunction])

AddSource(types, urlFunction) ==
    /\ Len(sources) < MaxSources
    /\ sources' = AddSourceTo(sources, types, urlFunction)
    /\ registered' = Append(registered, [types |-> types, urlFunction |-> urlFunction])
    /\ UNCHANGED calls

\* -------------------------------------------------------- tryNextSource
\* Array.prototype.indexOf: 0-based position of the first occurrence, -1
\* when absent.
RECURSIVE IndexOfFrom(_, _, _)
IndexOfFrom(arr, x, k) ==
    IF k > Len(arr) THEN -1
    ELSE IF arr[k] = x THEN k - 1
    ELSE IndexOfFrom(arr, x, k + 1)

IndexOf(arr, x) == IndexOfFrom(arr, x, 1)

\* Mutant: the test `>= 0` replaced by one that -1 passes too.
Matches_Always(source, name) == IndexOf(source.types, name) >= -1

\* Mutant: `indexOf(...) > 0`.
Matches_NotFirst(source, name) == IndexOf(source.types, name) > 0

Matches(source, name) == IndexOf(source.types, name) >= 0

NoUrlFunction == "<undefined>"

\* Mutant: the loop breaks at the first source, whatever its types.
Scan_IgnoresType(srcs, sourceIndex, name) ==
    IF sourceIndex < Len(srcs)
    THEN [sourceIndex |-> sourceIndex + 1,
          urlFunction |-> srcs[sourceIndex + 1].urlFunction]
    ELSE [sourceIndex |-> sourceIndex, urlFunction |-> NoUrlFunction]

\* Mutant: the loop walks this.sources itself, not the copy load took.
RECURSIVE Scan_Live(_, _, _)
Scan_Live(srcs, sourceIndex, name) ==
    IF sourceIndex < Len(sources)
    THEN IF Matches(sources[sourceIndex + 1], name)
         THEN [sourceIndex |-> sourceIndex + 1,
               urlFunction |-> sources[sourceIndex + 1].urlFunction]
         ELSE Scan_Live(srcs, sourceIndex + 1, name)
    ELSE [sourceIndex |-> sourceIndex, urlFunction |-> NoUrlFunction]

\* The while loop of tryNextSource: sourceIndex is 0-based, sources[i] of
\* the program is srcs[i + 1] here.
RECURSIVE Scan(_, _, _)
Scan(srcs, sourceIndex, name) ==
    IF sourceIndex < Len(srcs)
    THEN IF Matches(srcs[sourceIndex + 1], name)
         THEN [sourceIndex |-> sourceIndex + 1,
               urlFunction |-> srcs[sourceIndex + 1].urlFunction]
         ELSE Scan(srcs, sourceIndex + 1, name)
    ELSE [sourceIndex |-> sourceIndex, urlFunction |-> NoUrlFunction]

\* Mutant: the exception is caught, pushed and the load rejected.
Thrown_Recorded(call, urlFunction, inExecutor) ==
    Settle([call EXCEPT !.errors =
               Append(@, [url |-> NoUrlFunction,
                          result |-> [kind |-> "error", code |-> urlFunction]])],
           RejectedWithErrors(
               Append(call.errors,
                      [url |-> NoUrlFunction,
                       result |-> [kind |-> "error", code |-> urlFunction]])))

\* The effect of `urlFunction(asset)` throwing.  Within the promise
\* executor (the first tryNextSource) the promise is rejected with the
\* exception; within a got() callback the exception rejects the promise
\* returned by then(), which nobody holds, and neither fulfill nor reject
\* of the load is ever called.
Thrown(call, urlFunction, inExecutor) ==
    IF inExecutor
    THEN [call EXCEPT !.promise = IF @ = Pending
                                  THEN RejectedWithException(urlFunction)
                                  ELSE @]
    ELSE call

\* Mutant: `errors.length > 1`.
Exhausted_OffByOne(call) ==
    IF Len(call.errors) > 1
    THEN Settle(call, RejectedWithErrors(call.errors))
    ELSE Settle(call, FulfilledWithNull)

\* Mutant: `errors.length >= 0`.
Exhausted_RejectsEmpty(call) ==
    IF Len(call.errors) >= 0
    THEN Settle(call, RejectedWithErrors(call.errors))
    ELSE Settle(call, FulfilledWithNull)

\* The two last branches of tryNextSource: no urlFunction was found.
Exhausted(call) ==
    IF Len(call.errors) > 0
    THEN Settle(call, RejectedWithErrors(call.errors))
    ELSE Settle(call, FulfilledWithNull)

\* The part of tryNextSource after the loop.
Dispatch(call, urlFunction, inExecutor) ==
    IF urlFunction # NoUrlFunction
    THEN LET invoked == [call EXCEPT !.invoked =
                            Append(@, [index |-> call.sourceIndex - 1,
                                       arg |-> call.asset])]
         IN  IF Throws(urlFunction)
             THEN Thrown(invoked, urlFunction, inExecutor)
             ELSE LET url == ApplyUrlFunction(urlFunction, call.asset)
                  IN  [invoked EXCEPT
                          !.inFlight = Append(@, [url |-> url,
                                                  index |-> call.sourceIndex - 1]),
                          !.fetched = Append(@, url)]
    ELSE Exhausted(call)

\* Mutant: the next matching source is fetched at once, without waiting
\* for the answer of the one just fetched.
TryNextSource_Eager(call, inExecutor) ==
    LET found == Scan(call.sources, call.sourceIndex, call.assetType.name)
        moved == [call EXCEPT !.sourceIndex = found.sourceIndex,
                              !.cursors = Append(@, found.sourceIndex)]
        first == Dispatch(moved, found.urlFunction, inExecutor)
        again == Scan(first.sources, first.sourceIndex, first.assetType.name)
        moved2 == [first EXCEPT !.sourceIndex = again.sourceIndex,
                                !.cursors = Append(@, again.sourceIndex)]
    IN  IF found.urlFunction # NoUrlFunction /\ again.urlFunction # NoUrlFunction
        THEN Dispatch(moved2, again.urlFunction, inExecutor)
        ELSE first

TryNextSource(call, inExecutor) ==
    LET found == Scan(call.sources, call.sourceIndex, call.assetType.name)
        moved == [call EXCEPT !.sourceIndex = found.sourceIndex,
                              !.cursors = Append(@, found.sourceIndex)]
    IN  Dispatch(moved, found.urlFunction, inExecutor)

\* ----------------------------------------------------------------- load
\* Mutant: `errors` lives outside load, shared with the first call.
StartLoad_SharedErrors(srcs, assetType, assetId) ==
    TryNextSource(
        [NotCalled EXCEPT !.called = TRUE,
                          !.assetType = assetType,
                          !.assetId = assetId,
                          !.errors = calls[1].errors,
                          !.sources = srcs,
                          !.asset = NewAsset(assetType, assetId),
                          !.sourceIndex = 0],
        TRUE)

StartLoad(srcs, assetType, assetId) ==
    TryNextSource(
        [NotCalled EXCEPT !.called = TRUE,
                          !.assetType = assetType,
                          !.assetId = assetId,
                          !.errors = <<>>,
                          !.sources = srcs,
                          !.asset = NewAsset(assetType, assetId),
                          !.sourceIndex = 0],
        TRUE)

Load(c, assetType, assetId) ==
    /\ ~calls[c].called
    /\ \A d \in Calls : d < c => calls[d].called
    /\ calls' = [calls EXCEPT ![c] = StartLoad(sources, assetType, assetId)]
    /\ UNCHANGED <<sources, registered>>

\* ------------------------------------------------------ got() callbacks
Remove(seq, k) == [i \in 1..(Len(seq) - 1) |-> IF i < k THEN seq[i] ELSE seq[i + 1]]

\* The request leaves the in-flight list and its result is noted in the
\* history.
Settled(call, k, result) ==
    [call EXCEPT !.inFlight = Remove(@, k),
                 !.answers = Append(@, [index |-> call.inFlight[k].index,
                                        url |-> call.inFlight[k].url,
                                        result |-> result])]

\* Mutant: every status outside [200, 300) is pushed, 404 included.
OnBadStatus_Records404(call, url, response) ==
    TryNextSource([call EXCEPT !.errors =
                      Append(@, [url |-> url, result |-> response])],
                  FALSE)

\* Mutant: a status outside [200, 300) other than 404 rejects at once.
OnBadStatus_Fatal(call, url, response) ==
    IF response.status # 404
    THEN Settle([call EXCEPT !.errors =
                    Append(@, [url |-> url, result |-> response])],
                RejectedWithErrors(
                    Append(call.errors, [url |-> url, result |-> response])))
    ELSE TryNextSource(call, FALSE)

\* The branch of the response callback for a status outside [200, 300).
OnBadStatus(call, url, response) ==
    LET noted == IF response.status # 404
                 THEN [call EXCEPT !.errors =
                          Append(@, [url |-> url, result |-> response])]
                 ELSE call
    IN  TryNextSource(noted, FALSE)

\* Mutant: fulfill(asset) without setData.
OnGoodStatus_NoSetData(call, response) ==
    Settle(call, FulfilledWithAsset(call.asset))

\* The else branch of the response callback: setData, then fulfill(asset).
OnGoodStatus(call, response) ==
    LET filled == [call EXCEPT !.asset =
                      SetData(@, response.body, call.assetType.runtimeFormat)]
    IN  Settle(filled, FulfilledWithAsset(filled.asset))

\* Mutant: `response.status <= 200 || response.status >= 300`.
OnResponse_OffByOne(call, url, response) ==
    IF response.status <= 200 \/ response.status >= 300
    THEN OnBadStatus(call, url, response)
    ELSE OnGoodStatus(call, response)

\* response => { ... }
OnResponse(call, url, response) ==
    IF response.status < 200 \/ response.status >= 300
    THEN OnBadStatus(call, url, response)
    ELSE OnGoodStatus(call, response)

\* Mutant: a transport error rejects the load at once.
OnError_Fatal(call, url, error) ==
    Settle([call EXCEPT !.errors = Append(@, [url |-> url, result |-> error])],
           RejectedWithErrors(Append(call.errors, [url |-> url, result |-> error])))

\* Mutant: the error is not pushed.
OnError_Unrecorded(call, url, error) == TryNextSource(call, FALSE)

\* error => { ... }
OnError(call, url, error) ==
    TryNextSource([call EXCEPT !.errors = Append(@, [url |-> url, result |-> error])],
                  FALSE)

Respond(c, k, response) ==
    /\ calls' = [calls EXCEPT ![c] =
                    OnResponse(Settled(calls[c], k, response),
                               calls[c].inFlight[k].url, response)]
    /\ UNCHANGED <<sources, registered>>

Fail(c, k, error) ==
    /\ calls' = [calls EXCEPT ![c] =
                    OnError(Settled(calls[c], k, error),
                            calls[c].inFlight[k].url, error)]
    /\ UNCHANGED <<sources, registered>>

\* -------------------------------------------------------- specification
\* One load call against every registry and every answer of the network.
Next ==
    \/ \E types \in TypeLists, urlFunction \in UrlFunctions :
          AddSource(types, urlFunction)
    \/ \E assetType \in AssetTypes, assetId \in AssetIds :
          Load(1, assetType, assetId)
    \/ \E response \in Responses :
          \E k \in 1..Len(calls[1].inFlight) : Respond(1, k, response)
    \/ \E error \in TransportErrors :
          \E k \in 1..Len(calls[1].inFlight) : Fail(1, k, error)

Spec == Init /\ [][Next]_vars

\* Several load calls at once, their callbacks interleaved in any order
\* with each other and with addSource, over a smaller choice of sources
\* and answers.
MaxConcurrentSources == 2

ConcurrentSources ==
    { [types |-> << [name |-> "ImageVector", runtimeFormat |-> "svg"] >>,
       urlFunction |-> "cdn"],
      [types |-> << [name |-> "ImageVector", runtimeFormat |-> "svg"],
                    [name |-> "Sound", runtimeFormat |-> "wav"] >>,
       urlFunction |-> "mirror"] }

ConcurrentResponses ==
    { r \in Responses : r.status \in {200, 404} /\ r.body # "bytes2" }

ConcurrentNext ==
    \/ \E source \in ConcurrentSources :
          /\ Len(sources) < MaxConcurrentSources
          /\ AddSource(source.types, source.urlFunction)
    \/ \E c \in Calls, assetType \in AssetTypes, assetId \in AssetIds :
          Load(c, assetType, assetId)
    \/ \E c \in Calls, response \in ConcurrentResponses :
          \E k \in 1..Len(calls[c].inFlight) : Respond(c, k, response)
    \/ \E c \in Calls, error \in TransportErrors :
          \E k \in 1..Len(calls[c].inFlight) : Fail(c, k, error)

ConcurrentSpec == Init /\ [][ConcurrentNext]_vars

\* ------------------------------------------------ vocabulary of the claims
Range(seq) == {seq[i] : i \in 1..Len(seq)}

\* The 0-based indices of the sources, in the registry as the load found
\* it, whose types list the requested type name.
MatchingIndices(call) ==
    {i \in 0..(Len(call.sources) - 1) :
        call.assetType.name \in Range(call.sources[i + 1].types)}

\* The i-th (1-based) matching source in registration order.
NthMatching(call, i) ==
    CHOOSE m \in MatchingIndices(call) :
        Cardinality({x \in MatchingIndices(call) : x < m}) = i - 1

InSuccessRange(result) ==
    result.kind = "response" /\ result.status >= 200 /\ result.status < 300

IsNotFound(result) == result.kind = "response" /\ result.status = 404

IsSourceError(result) ==
    \/ result.kind = "error"
    \/ result.kind = "response" /\ ~InSuccessRange(result) /\ result.status # 404

FulfilledAsset(call) ==
    call.promise.state = "fulfilled" /\ call.promise.value = "asset"

FulfilledNull(call) ==
    call.promise.state = "fulfilled" /\ call.promise.value = "null"

RejectedErrors(call) ==
    call.promise.state = "rejected" /\ call.promise.value = "errors"

AnsweredIndices(call) == {call.answers[j].index : j \in 1..Len(call.answers)}

\* ------------------------------------------------------------------ C1
\* C1: a load issued when no registered source lists assetType.name
\* (an empty registry included) fulfils with null, invokes no URL builder
\* and issues no fetch.
C1_NoMatchYieldsNull ==
    \A c \in Calls :
        (calls[c].called /\ MatchingIndices(calls[c]) = {}) =>
            /\ FulfilledNull(calls[c])
            /\ calls[c].invoked = <<>>
            /\ calls[c].fetched = <<>>
            /\ calls[c].inFlight = <<>>

C1_Witness ==
    \E c \in Calls :
        /\ calls[c].called
        /\ Len(calls[c].sources) >= 2
        /\ MatchingIndices(calls[c]) = {}
        /\ FulfilledNull(calls[c])

\* ------------------------------------------------------------------ C2
\* C2: first success wins.  An answer with status in [200, 300) is the
\* last answer of the load: the load is then fulfilled with the asset
\* holding exactly that answer's body and assetType.runtimeFormat, and no
\* URL builder has been invoked and no fetch issued beyond the one that
\* was answered, in that state and in every later one.
C2_FirstSuccessWins ==
    \A c \in Calls :
        \A j \in 1..Len(calls[c].answers) :
            InSuccessRange(calls[c].answers[j].result) =>
                /\ j = Len(calls[c].answers)
                /\ FulfilledAsset(calls[c])
                /\ calls[c].promise.asset.data = calls[c].answers[j].result.body
                /\ calls[c].promise.asset.dataFormat = calls[c].assetType.runtimeFormat
                /\ calls[c].promise.asset.assetType = calls[c].assetType
                /\ calls[c].promise.asset.assetId = calls[c].assetId
                /\ Len(calls[c].invoked) = j
                /\ Len(calls[c].fetched) = j
                /\ calls[c].inFlight = <<>>

\* The first matching source answered 200 while a later source matches too.
C2_Witness ==
    \E c \in Calls :
        /\ Cardinality(MatchingIndices(calls[c])) >= 2
        /\ Len(calls[c].answers) = 1
        /\ calls[c].answers[1].result.kind = "response"
        /\ calls[c].answers[1].result.status = 200
        /\ FulfilledAsset(calls[c])

\* ------------------------------------------------------------------ C3
\* C3: a 404 answer is never recorded.  No entry of the failure list (nor
\* of a rejected list) is a 404 response, and when the first matching
\* source answers 404 and the second answers 200 the load is fulfilled
\* with the asset populated from the second answer.
C3_NotFoundIsNotRecorded ==
    \A c \in Calls :
        /\ \A i \in 1..Len(calls[c].errors) :
              ~IsNotFound(calls[c].errors[i].result)
        /\ RejectedErrors(calls[c]) =>
              \A i \in 1..Len(calls[c].promise.errors) :
                  ~IsNotFound(calls[c].promise.errors[i].result)
        /\ ( /\ Len(calls[c].answers) >= 2
             /\ IsNotFound(calls[c].answers[1].result)
             /\ calls[c].answers[2].result.kind = "response"
             /\ calls[c].answers[2].result.status = 200 ) =>
                /\ FulfilledAsset(calls[c])
                /\ calls[c].promise.asset.data = calls[c].answers[2].result.body
                /\ calls[c].answers[2].index = NthMatching(calls[c], 2)
                /\ calls[c].answers[1].index = NthMatching(calls[c], 1)
                /\ calls[c].errors = <<>>

C3_Witness ==
    \E c \in Calls :
        /\ Len(calls[c].answers) = 2
        /\ IsNotFound(calls[c].answers[1].result)
        /\ calls[c].answers[2].result.kind = "response"
        /\ calls[c].answers[2].result.status = 200
        /\ FulfilledAsset(calls[c])

\* ------------------------------------------------------------------ C4
\* C4: if every source matching the requested type answers 500, the load
\* rejects with a failure list that has one entry per matching source, in
\* registration order, the i-th entry holding the URL computed by the
\* i-th matching source's URL builder (and the 500 response it got).
AllMatchingAnswered(call, status) ==
    /\ MatchingIndices(call) # {}
    /\ AnsweredIndices(call) = MatchingIndices(call)
    /\ \A j \in 1..Len(call.answers) :
          /\ call.answers[j].result.kind = "response"
          /\ call.answers[j].result.status = status

C4_AllFailRejectsInOrder ==
    \A c \in Calls :
        AllMatchingAnswered(calls[c], 500) =>
            /\ RejectedErrors(calls[c])
            /\ Len(calls[c].promise.errors) = Cardinality(MatchingIndices(calls[c]))
            /\ \A i \in 1..Len(calls[c].promise.errors) :
                  /\ calls[c].promise.errors[i].url =
                        ApplyUrlFunction(
                            calls[c].sources[NthMatching(calls[c], i) + 1].urlFunction,
                            NewAsset(calls[c].assetType, calls[c].assetId))
                  /\ calls[c].promise.errors[i].result.kind = "response"
                  /\ calls[c].promise.errors[i].result.status = 500

\* Two matching sources with different URL builders, both answered 500.
C4_Witness ==
    \E c \in Calls :
        /\ AllMatchingAnswered(calls[c], 500)
        /\ Cardinality(MatchingIndices(calls[c])) = 2
        /\ Len(calls[c].sources) = 3
        /\ RejectedErrors(calls[c])
        /\ calls[c].promise.errors[1].url # calls[c].promise.errors[2].url

\* ------------------------------------------------------------------ C5
\* C5: if at least one source matches and every matching source answers
\* 404, the load fulfils with null; and a load whose answers are all 404
\* never rejects with a failure list.
C5_AllNotFoundYieldsNull ==
    \A c \in Calls :
        /\ AllMatchingAnswered(calls[c], 404) => FulfilledNull(calls[c])
        /\ (\A j \in 1..Len(calls[c].answers) : IsNotFound(calls[c].answers[j].result))
              => ~RejectedErrors(calls[c])

C5_Witness ==
    \E c \in Calls :
        /\ AllMatchingAnswered(calls[c], 404)
        /\ Cardinality(MatchingIndices(calls[c])) >= 2
        /\ FulfilledNull(calls[c])

\* ------------------------------------------------------------------ C6
\* C6: whatever the outcome, a source whose types do not list
\* assetType.name is never probed (no URL builder invocation, no fetch
\* for it), and the URL builder of a probed source is invoked exactly
\* once, with the asset built from (assetType, assetId).
C6_OnlyMatchingSourcesProbed ==
    \A c \in Calls :
        calls[c].called =>
            LET call == calls[c]
                matching == MatchingIndices(call)
            IN  /\ \A j \in 1..Len(call.invoked) :
                      /\ call.invoked[j].index \in matching
                      /\ call.invoked[j].arg.assetType = call.assetType
                      /\ call.invoked[j].arg.assetId = call.assetId
                      /\ call.invoked[j].arg.data = NoData
                      /\ \A k \in 1..Len(call.invoked) :
                            call.invoked[k].index = call.invoked[j].index => k = j
                /\ \A j \in 1..Len(call.inFlight) :
                      call.inFlight[j].index \in matching
                /\ AnsweredIndices(call) \subseteq matching
                /\ Len(call.fetched) <= Len(call.invoked)

\* A non-matching source lies between two probed ones.
C6_Witness ==
    \E c \in Calls :
        /\ Len(calls[c].invoked) = 2
        /\ calls[c].invoked[1].index = 0
        /\ calls[c].invoked[2].index = 2
        /\ MatchingIndices(calls[c]) = {0, 2}
        /\ calls[c].promise # Pending

\* ------------------------------------------------------------------ C7
\* C7: every load call settles exactly once, with exactly one of three
\* outcomes: fulfilled with the populated asset, fulfilled with null, or
\* rejected with the failure list.  As a state predicate: fulfill/reject
\* is called at most once, a settled load has one of the three outcomes,
\* and a load with no fetch left in flight has settled.
ThreeOutcomes(call) ==
    \/ /\ FulfilledAsset(call)
       /\ call.promise.asset.data # NoData
    \/ FulfilledNull(call)
    \/ /\ RejectedErrors(call)
       /\ call.promise.errors # <<>>

C7_SettlesOnceThreeOutcomes ==
    \A c \in Calls :
        calls[c].called =>
            /\ calls[c].settleCalls <= 1
            /\ calls[c].promise # Pending => ThreeOutcomes(calls[c])
            /\ calls[c].promise # Pending => calls[c].settleCalls = 1
            /\ calls[c].inFlight = <<>> => calls[c].promise # Pending

\* ------------------------------------------------------------------ C8
\* C8 as stated: a load rejected with the failure list had at least one
\* matching source, and every matching source answered with a non-2xx,
\* non-404 response or a transport error.
C8_RejectsOnlyIfAllErrored ==
    \A c \in Calls :
        RejectedErrors(calls[c]) =>
            /\ MatchingIndices(calls[c]) # {}
            /\ \A m \in MatchingIndices(calls[c]) :
                  \E j \in 1..Len(calls[c].answers) :
                      /\ calls[c].answers[j].index = m
                      /\ IsSourceError(calls[c].answers[j].result)

\* C8 as amended: a load rejected with the failure list had at least one
\* matching source, every matching source was probed and answered with a
\* 404, another non-2xx response or a transport error, and at least one
\* of these answers was not a 404.
C8_RejectsOnlyIfNoneSucceeded ==
    \A c \in Calls :
        RejectedErrors(calls[c]) =>
            /\ MatchingIndices(calls[c]) # {}
            /\ Len(calls[c].answers) = Cardinality(MatchingIndices(calls[c]))
            /\ \A m \in MatchingIndices(calls[c]) :
                  \E j \in 1..Len(calls[c].answers) :
                      /\ calls[c].answers[j].index = m
                      /\ \/ IsSourceError(calls[c].answers[j].result)
                         \/ IsNotFound(calls[c].answers[j].result)
            /\ \E j \in 1..Len(calls[c].answers) :
                  IsSourceError(calls[c].answers[j].result)

\* Rejected although one of the matching sources answered 404.
C8_Witness ==
    \E c \in Calls :
        /\ RejectedErrors(calls[c])
        /\ Len(calls[c].answers) = 2
        /\ IsSourceError(calls[c].answers[1].result)
        /\ IsNotFound(calls[c].answers[2].result)

\* ------------------------------------------------------------------ C9
\* C9: registration is append-only and order-preserving.  The registry
\* holds one entry per addSource call, in call order; a step that changes
\* the registry appends exactly one entry and leaves the earlier entries
\* as they were; and a load tries the matching sources in that order.
C9_OneEntryPerCall ==
    /\ Len(sources) = Len(registered)
    /\ \A i \in 1..Len(sources) :
          /\ sources[i].urlFunction = registered[i].urlFunction
          /\ Len(sources[i].types) = Len(registered[i].types)
          /\ \A k \in 1..Len(sources[i].types) :
                sources[i].types[k] = registered[i].types[k].name

C9_TriedInRegistrationOrder ==
    \A c \in Calls :
        calls[c].called =>
            /\ Len(calls[c].sources) <= Len(sources)
            /\ \A i \in 1..Len(calls[c].sources) : calls[c].sources[i] = sources[i]
            /\ \A j \in 1..Len(calls[c].invoked) :
                  calls[c].invoked[j].index = NthMatching(calls[c], j)

C9_AppendsOne ==
    sources' # sources =>
        /\ Len(sources') = Len(sources) + 1
        /\ \A i \in 1..Len(sources) : sources'[i] = sources[i]

C9_RegistrationAppendOnly ==
    /\ [](C9_OneEntryPerCall /\ C9_TriedInRegistrationOrder)
    /\ [][C9_AppendsOne]_vars

\* Three different entries are registered and a load has tried two.
C9_Witness ==
    /\ Len(sources) = 3
    /\ sources[1] # sources[2]
    /\ sources[2] # sources[3]
    /\ sources[1] # sources[3]
    /\ \E c \in Calls : Len(calls[c].invoked) = 2

\* ----------------------------------------------------------------- C10
\* C10: termination.  A load with no fetch left to wait for has settled
\* (so a load whose fetches all settle does settle); it issues at most one
\* fetch per matching source, hence at most N for a registry of N
\* entries; its cursor never decreases and never exceeds N.
C10_Terminates ==
    \A c \in Calls :
        calls[c].called =>
            /\ calls[c].inFlight = <<>> => calls[c].promise # Pending
            /\ Len(calls[c].fetched) <= Cardinality(MatchingIndices(calls[c]))
            /\ Len(calls[c].fetched) <= Len(calls[c].sources)
            /\ calls[c].sourceIndex <= Len(calls[c].sources)
            /\ \A j \in 1..Len(calls[c].cursors) :
                  /\ calls[c].cursors[j] <= Len(calls[c].sources)
                  /\ j > 1 => calls[c].cursors[j - 1] <= calls[c].cursors[j]

\* ----------------------------------------------------------------- C11
\* C11: each load call has at most one fetch in flight at any instant, the
\* next fetch being issued only after the previous one of the same call
\* has settled; different calls may each have one in flight at once.
C11_OneFetchInFlightPerCall ==
    \A c \in Calls :
        /\ Len(calls[c].inFlight) <= 1
        /\ Len(calls[c].fetched) = Len(calls[c].answers) + Len(calls[c].inFlight)
        /\ Len(calls[c].fetched) <= Len(calls[c].answers) + 1

\* Two calls each wait for a fetch, one of them for its second.
C11_Witness ==
    \E c, d \in Calls :
        /\ c # d
        /\ Len(calls[c].inFlight) = 1
        /\ Len(calls[d].inFlight) = 1
        /\ Len(calls[c].answers) = 1

\* ----------------------------------------------------------------- C12
\* C12: within one load the matching sources are probed in strictly
\* increasing registry index order, starting with the first matching
\* source: the j-th probe is the matching source with j - 1 matching
\* sources before it, i.e. the j-th matching source, so none is skipped
\* and none is probed twice, and a walk that ends by exhaustion has probed
\* them all.
C12_ProbedInIncreasingOrder ==
    \A c \in Calls :
        calls[c].called =>
            LET call == calls[c]
                matching == MatchingIndices(call)
            IN  /\ Len(call.invoked) <= Cardinality(matching)
                /\ \A j \in 1..Len(call.invoked) :
                      /\ call.invoked[j].index \in matching
                      /\ Cardinality({m \in matching : m < call.invoked[j].index}) = j - 1
                      /\ j > 1 => call.invoked[j - 1].index < call.invoked[j].index
                      /\ call.cursors[j] = call.invoked[j].index + 1
                /\ (FulfilledNull(call) \/ RejectedErrors(call)) =>
                      Len(call.invoked) = Cardinality(matching)

\* The first source does not match; the second and the third were probed.
C12_Witness ==
    \E c \in Calls :
        /\ MatchingIndices(calls[c]) = {1, 2}
        /\ Len(calls[c].invoked) = 2
        /\ calls[c].invoked[1].index = 1
        /\ calls[c].invoked[2].index = 2

\* ----------------------------------------------------------------- C13
\* C13: a source error is not fatal.  After a transport error or a
\* non-2xx, non-404 response the load has recorded {url, cause} and, if a
\* further source matches, gone on to it; if a later source answers 2xx
\* the load is fulfilled with the populated asset, not rejected.
ErrorsUpTo(call, j) ==
    Cardinality({k \in 1..j : IsSourceError(call.answers[k].result)})

C13_SourceErrorIsNotFatal ==
    \A c \in Calls :
        LET call == calls[c]
        IN  /\ \A j \in 1..Len(call.answers) :
                  IsSourceError(call.answers[j].result) =>
                      /\ Len(call.errors) >= ErrorsUpTo(call, j)
                      /\ call.errors[ErrorsUpTo(call, j)] =
                            [url |-> call.answers[j].url,
                             result |-> call.answers[j].result]
                      /\ call.answers[j].url = call.fetched[j]
                      /\ j < Cardinality(MatchingIndices(call)) =>
                            Len(call.invoked) > j
                      /\ (\E k \in (j + 1)..Len(call.answers) :
                              InSuccessRange(call.answers[k].result)) =>
                            /\ FulfilledAsset(call)
                            /\ call.promise.asset.data # NoData
            /\ RejectedErrors(call) =>
                  Len(call.answers) = Cardinality(MatchingIndices(call))

\* A 500, then a 200 from the next source.
C13_Witness ==
    \E c \in Calls :
        /\ Len(calls[c].answers) = 2
        /\ calls[c].answers[1].result.kind = "response"
        /\ calls[c].answers[1].result.status = 500
        /\ InSuccessRange(calls[c].answers[2].result)
        /\ FulfilledAsset(calls[c])
        /\ Len(calls[c].errors) = 1

\* ----------------------------------------------------------------- C14
\* C14: when the matching sources are exhausted without a success the
\* load rejects if and only if the failure list is non-empty and otherwise
\* fulfils with null; a rejected list holds exactly one entry per probed
\* source that answered with a transport error or a non-2xx, non-404
\* response, in probe order, and nothing else.
IsErrorAnswer(answer) == IsSourceError(answer.result)

ErrorAnswers(call) ==
    LET failed == SelectSeq(call.answers, IsErrorAnswer)
    IN  [i \in 1..Len(failed) |->
            [url |-> failed[i].url, result |-> failed[i].result]]

ExhaustedWithoutSuccess(call) ==
    /\ call.called
    /\ AnsweredIndices(call) = MatchingIndices(call)
    /\ \A j \in 1..Len(call.answers) : ~InSuccessRange(call.answers[j].result)

C14_RejectsIffFailuresRecorded ==
    \A c \in Calls :
        LET call == calls[c]
        IN  /\ ExhaustedWithoutSuccess(call) =>
                  /\ RejectedErrors(call) <=> call.errors # <<>>
                  /\ call.errors = <<>> => FulfilledNull(call)
                  /\ call.errors = ErrorAnswers(call)
            /\ RejectedErrors(call) =>
                  /\ ExhaustedWithoutSuccess(call)
                  /\ call.promise.errors = ErrorAnswers(call)
                  /\ call.promise.errors # <<>>

\* Three answers, one of them a 404: two entries in the rejected list.
C14_Witness ==
    \E c \in Calls :
        /\ RejectedErrors(calls[c])
        /\ Len(calls[c].answers) = 3
        /\ IsNotFound(calls[c].answers[2].result)
        /\ calls[c].answers[3].result.kind = "error"
        /\ Len(calls[c].promise.errors) = 2

\* ----------------------------------------------------------------- C15
\* C15: the asset of a load is populated at most once, only on a 2xx
\* answer and in the step in which the load fulfils with it: the asset is
\* populated if and only if the call is fulfilled with that asset, and it
\* stays unpopulated on the null and rejection paths.
C15_PopulatedIffFulfilledWithAsset ==
    \A c \in Calls :
        LET call == calls[c]
        IN  /\ call.asset.setDataCalls <= 1
            /\ call.asset.data # NoData <=> FulfilledAsset(call)
            /\ call.asset.setDataCalls = 1 <=> FulfilledAsset(call)
            /\ FulfilledAsset(call) =>
                  /\ call.promise.asset = call.asset
                  /\ InSuccessRange(call.answers[Len(call.answers)].result)
                  /\ call.asset.data = call.answers[Len(call.answers)].result.body
                  /\ call.asset.dataFormat = call.assetType.runtimeFormat
            /\ (call.called /\ ~FulfilledAsset(call)) =>
                  /\ call.asset.data = NoData
                  /\ call.asset.dataFormat = NoData

\* A transport error, then a 299 that populates the asset.
C15_Witness ==
    \E c \in Calls :
        /\ Len(calls[c].answers) = 2
        /\ calls[c].answers[1].result.kind = "error"
        /\ calls[c].answers[2].result.kind = "response"
        /\ calls[c].answers[2].result.status = 299
        /\ FulfilledAsset(calls[c])
        /\ calls[c].asset.setDataCalls = 1

\* ----------------------------------------------------------------- C16
\* C16: the cursor and the failure list belong to one load call.  However
\* the callbacks of several calls interleave, the state of each call
\* (probe sequence, failure list, outcome) is the one that call reaches
\* alone with the same answers, and its failure list holds its own failed
\* answers only.
RECURSIVE Alone(_, _)
Alone(call, n) ==
    IF n = 0
    THEN StartLoad(call.sources, call.assetType, call.assetId)
    ELSE LET before == Alone(call, n - 1)
             result == call.answers[n].result
         IN  IF before.inFlight = <<>>
             THEN before
             ELSE IF result.kind = "response"
                  THEN OnResponse(Settled(before, 1, result),
                                  before.inFlight[1].url, result)
                  ELSE OnError(Settled(before, 1, result),
                               before.inFlight[1].url, result)

C16_CallsDoNotInterfere ==
    \A c \in Calls :
        calls[c].called =>
            LET call == calls[c]
            IN  /\ call = Alone(call, Len(call.answers))
                /\ call.errors = ErrorAnswers(call)
                /\ \A i \in 1..Len(call.errors) :
                      call.errors[i].url.type = call.assetType.name
                /\ RejectedErrors(call) => call.promise.errors = ErrorAnswers(call)

\* While the first call, with one failure recorded, waits for its second
\* fetch, a call for another type has been rejected with its own failure.
C16_Witness ==
    \E c, d \in Calls :
        /\ c < d
        /\ calls[c].assetType # calls[d].assetType
        /\ Len(calls[c].errors) = 1
        /\ Len(calls[c].inFlight) = 1
        /\ RejectedErrors(calls[d])

\* ----------------------------------------------------------------- C17
\* C17: load walks the registry as it was when load was called.  The copy
\* is the registry at the call and never changes afterwards; an addSource
\* changes no load in progress; every probe is the next matching source of
\* the copy, and a walk that ends by exhaustion has probed the matching
\* sources of the copy and no other.
C17_WalksTheCopy ==
    \A c \in Calls :
        calls[c].called =>
            LET call == calls[c]
                matching == MatchingIndices(call)
            IN  /\ \A j \in 1..Len(call.invoked) :
                      /\ call.invoked[j].index < Len(call.sources)
                      /\ call.invoked[j].index \in matching
                      /\ Cardinality({m \in matching : m < call.invoked[j].index}) = j - 1
                /\ call.sourceIndex <= Len(call.sources)
                /\ (FulfilledNull(call) \/ RejectedErrors(call)) =>
                      /\ Len(call.invoked) = Cardinality(matching)
                      /\ call.sourceIndex = Len(call.sources)

C17_CopyIsFrozen ==
    /\ \A c \in Calls :
          /\ calls[c].called => calls'[c].sources = calls[c].sources
          /\ (~calls[c].called /\ calls'[c].called) => calls'[c].sources = sources
    /\ sources' # sources => calls' = calls

C17_LoadUsesSnapshot ==
    /\ []C17_WalksTheCopy
    /\ [][C17_CopyIsFrozen]_vars

\* A source matching the requested type was added while the load, called
\* with two sources, waits for the answer of the second.
C17_Witness ==
    \E c \in Calls :
        /\ Len(calls[c].sources) = 2
        /\ Len(sources) = 3
        /\ calls[c].assetType.name \in Range(sources[3].types)
        /\ Len(calls[c].answers) = 1
        /\ Len(calls[c].inFlight) = 1
        /\ calls[c].sourceIndex = 2

\* ----------------------------------------------------------------- C18
\* C18: when the URL builder of a matching source throws, nothing is
\* recorded in the failure list and the walk stops there: no fetch is
\* issued for that source, no later source is probed, and the load is
\* neither rejected with the failure list nor fulfilled with null (it is
\* rejected with the exception if the builder was the first one invoked,
\* and stays pending otherwise).
C18_ThrowingBuilderStopsTheWalk ==
    \A c \in Calls :
        LET call == calls[c]
        IN  \A j \in 1..Len(call.invoked) :
                Throws(call.sources[call.invoked[j].index + 1].urlFunction) =>
                    /\ j = Len(call.invoked)
                    /\ Len(call.fetched) = j - 1
                    /\ Len(call.answers) = j - 1
                    /\ call.inFlight = <<>>
                    /\ call.errors = ErrorAnswers(call)
                    /\ call.settleCalls = 0
                    /\ ~RejectedErrors(call)
                    /\ ~FulfilledNull(call)
                    /\ ~FulfilledAsset(call)
                    /\ j = 1 => call.promise =
                          RejectedWithException(
                              call.sources[call.invoked[j].index + 1].urlFunction)
                    /\ j > 1 => call.promise = Pending

\* A recorded failure, then a builder that throws, with a further
\* matching source left unprobed.
C18_Witness ==
    \E c \in Calls :
        /\ Len(calls[c].invoked) = 2
        /\ Throws(calls[c].sources[calls[c].invoked[2].index + 1].urlFunction)
        /\ Len(calls[c].errors) = 1
        /\ Cardinality(MatchingIndices(calls[c])) = 3
        /\ calls[c].promise = Pending

====
